---------------------------- MODULE Spec2Model ----------------------------
(***************************************************************************)
(* Model of the Excel merger: merger.py (clean_currency, merge_group,      *)
(* process_file), the same pipeline in streamlit_app.py                    *)
(* (process_excel_data) and the Flask upload handler of app.py (index).    *)
(*                                                                         *)
(* Strings are sequences of one-character strings; the non-ASCII decimal   *)
(* digit U+0663 (ARABIC-INDIC DIGIT THREE) is written "u0663".             *)
(* Numbers are exact decimals counted in units of 10^-FracDigits: the      *)
(* representation error of a binary float is not modelled, and the inputs  *)
(* drawn have no more than FracDigits decimal places and stay below 1e16,  *)
(* where str() of a float turns to exponent notation.                      *)
(*                                                                         *)
(* Three specifications share the variables: Spec runs process_file or     *)
(* process_excel_data on one workbook, step by step; SpecCC calls          *)
(* clean_currency on one raw value; SpecWeb runs two POST requests of      *)
(* index() against one disk and one clock.                                 *)
(***************************************************************************)
EXTENDS Integers, Sequences, FiniteSets, TLC

(* ------------------------------ bounds -------------------------------- *)

\* Longest raw string drawn for clean_currency in SpecCC.
MaxLen == 3

\* Number of decimal places a number of the model carries.
FracDigits == 3

\* Most rows of an input table.
MaxRows == 2

(* --------------------------- characters ------------------------------- *)

AsciiDigits == {"0", "1", "2", "3", "4", "5", "6", "7", "8", "9"}

\* Decimal digits outside ASCII (Unicode category Nd), one sample of them.
UnicodeDigits == {"u0663"}

\* What the class \d of a str pattern matches: every Unicode decimal digit.
IsDigit(c) == c \in AsciiDigits \cup UnicodeDigits

\* The value float() gives a decimal digit.
DigitVal(c) ==
    CASE c = "0" -> 0 [] c = "1" -> 1 [] c = "2" -> 2 [] c = "3" -> 3
      [] c = "4" -> 4 [] c = "5" -> 5 [] c = "6" -> 6 [] c = "7" -> 7
      [] c = "8" -> 8 [] c = "9" -> 9 [] c = "u0663" -> 3

\* Code point of a character, the order sorted() compares strings by.
Ord(c) ==
    CASE c = " " -> 32 [] c = "$" -> 36 [] c = "," -> 44 [] c = "-" -> 45
      [] c = "." -> 46
      [] c \in AsciiDigits -> 48 + DigitVal(c)
      [] c = "O" -> 79 [] c = "a" -> 97 [] c = "k" -> 107 [] c = "o" -> 111
      [] c = "u0663" -> 1635

\* str.strip() removes whitespace.
IsSpace(c) == c = " "

(* ----------------------------- cells ---------------------------------- *)

\* A cell of a table: NaN (an empty spreadsheet cell), a str, or a float.
Null == [kind |-> "null"]
Str(s) == [kind |-> "str", s |-> s]
Num(n) == [kind |-> "num", n |-> n]

\* pd.isnull(value)
IsNull(v) == v.kind = "null"

Scale == 10 ^ FracDigits

Pow10(k) == 10 ^ k

(* ------------------------- clean_currency ----------------------------- *)

RECURSIVE DigitsOf(_)
\* The digits of a natural number, most significant first.
DigitsOf(n) ==
    LET d == <<CHOOSE c \in AsciiDigits : DigitVal(c) = n % 10>>
    IN  IF n < 10 THEN d ELSE DigitsOf(n \div 10) \o d

RECURSIVE StripZeros(_)
\* A fraction's digits without trailing zeros, one digit at least.
StripZeros(ds) ==
    IF Len(ds) > 1 /\ ds[Len(ds)] = "0"
    THEN StripZeros(SubSeq(ds, 1, Len(ds) - 1))
    ELSE ds

RECURSIVE PadLeft(_, _)
PadLeft(ds, k) == IF Len(ds) >= k THEN ds ELSE PadLeft(<<"0">> \o ds, k)

\* str(value) of a float below 1e16: integer part, ".", fraction.
FormatFloat(n) ==
    DigitsOf(n \div Scale) \o <<".">>
        \o StripZeros(PadLeft(DigitsOf(n % Scale), FracDigits))

\* str(value)
ToStr(v) == IF v.kind = "num" THEN FormatFloat(v.n) ELSE v.s

\* The character class with ASCII digits only, as under re.ASCII.
KeepCharAscii(c) == c \in AsciiDigits \/ c = "."

\* A character re.sub(r'[^\d.]', '', ...) keeps.
KeepChar(c) == IsDigit(c) \/ c = "."

NotComma(c) == c # ","

\* value_str.replace(',', '') and then the re.sub.
StripDecor(s) == SelectSeq(SelectSeq(s, NotComma), KeepChar)

IsDot(c) == c = "."

RECURSIVE IntVal(_)
\* The number a string of decimal digits denotes.
IntVal(ds) ==
    IF ds = <<>> THEN 0
    ELSE 10 * IntVal(SubSeq(ds, 1, Len(ds) - 1)) + DigitVal(ds[Len(ds)])

\* float(value_str) on a string of digits and dots: ValueError unless it
\* has one dot at most and a digit. Decimal places past FracDigits are
\* cut; no input drawn has any.
ParseFloat(s) ==
    LET dots == Len(SelectSeq(s, IsDot))
        p    == IF dots = 0 THEN Len(s) + 1
                ELSE CHOOSE i \in 1..Len(s) : s[i] = "."
        ip   == SubSeq(s, 1, p - 1)
        fp   == SubSeq(s, p + 1, Len(s))
        fk   == IF Len(fp) > FracDigits THEN SubSeq(fp, 1, FracDigits) ELSE fp
    IN  IF dots > 1 \/ Len(s) = dots
        THEN [ok |-> FALSE, val |-> 0]
        ELSE [ok |-> TRUE,
              val |-> IntVal(ip) * Scale
                        + IntVal(fk) * Pow10(FracDigits - Len(fk))]

clean_currency(value) ==
    IF IsNull(value) THEN 0
    ELSE LET value_str == StripDecor(ToStr(value))
             f == ParseFloat(value_str)
         IN  IF value_str = <<>> THEN 0
             ELSE IF f.ok THEN f.val ELSE 0

(* ------------------------- string helpers ----------------------------- *)

Range(f) == {f[i] : i \in DOMAIN f}

\* a < b in the order of Python's str comparison (code points).
StrLess(a, b) ==
    \E i \in 1..Len(b) :
        /\ \A j \in 1..(i - 1) : j <= Len(a) /\ a[j] = b[j]
        /\ \/ i = Len(a) + 1
           \/ i <= Len(a) /\ Ord(a[i]) < Ord(b[i])

RECURSIVE FirstSeen(_)
\* The distinct elements of a sequence in first-seen order (Series.unique,
\* and the order a groupby with sort=False would give).
FirstSeen(q) ==
    IF q = <<>> THEN <<>>
    ELSE LET init == FirstSeen(SubSeq(q, 1, Len(q) - 1))
             x == q[Len(q)]
         IN  IF x \in Range(init) THEN init ELSE Append(init, x)

RECURSIVE sorted(_)
\* sorted(set): ascending in str order.
sorted(S) ==
    IF S = {} THEN <<>>
    ELSE LET m == CHOOSE x \in S : \A y \in S \ {x} : StrLess(x, y)
         IN  <<m>> \o sorted(S \ {m})

RECURSIVE strip(_)
\* str.strip()
strip(s) ==
    IF s = <<>> THEN s
    ELSE IF IsSpace(s[1]) THEN strip(Tail(s))
    ELSE IF IsSpace(s[Len(s)]) THEN strip(SubSeq(s, 1, Len(s) - 1))
    ELSE s

RECURSIVE join(_)
\* ", ".join(parts)
join(parts) ==
    IF parts = <<>> THEN <<>>
    ELSE IF Len(parts) = 1 THEN parts[1]
    ELSE parts[1] \o <<",", " ">> \o join(Tail(parts))

RECURSIVE SumSeq(_)
SumSeq(q) == IF q = <<>> THEN 0 ELSE q[1] + SumSeq(Tail(q))

(* --------------------------- merge_group ------------------------------ *)

KeyColumn == "School No"

SUM_COLUMNS ==
    {"Total Order Value (Exclusive GST)", "Total Order Value (Inclusive GST)",
     "ASSET Revenue", "ASSETStudents", "CARES Revenue", "CARESStudents",
     "Mindspark Revenue", "MindsparkStudents"}

\* group[col]: the column's cells, in row order.
Column(group, col) == [i \in 1..Len(group) |-> group[i][col]]

NotNull(v) == ~IsNull(v)

\* group[col].dropna().astype(str).unique()
UniqueValues(group, col) ==
    LET kept == SelectSeq(Column(group, col), NotNull)
    IN  FirstSeen([i \in 1..Len(kept) |-> ToStr(kept[i])])

\* The sum taken over the column's distinct cells only.
SumColumnUnique(group, col) ==
    LET cells == FirstSeen(Column(group, col))
    IN  SumSeq([i \in 1..Len(cells) |-> clean_currency(cells[i])])

\* group[col].apply(clean_currency).sum()
SumColumn(group, col) ==
    SumSeq([i \in 1..Len(group) |-> clean_currency(group[i][col])])

\* The join of the values in the order they were met: what the text union
\* is without sorted().
TextUnionUnsorted(values) ==
    LET stripped == [i \in 1..Len(values) |-> strip(values[i])]
        NonEmpty(v) == v # <<>>
    IN  join(FirstSeen(SelectSeq(stripped, NonEmpty)))

\* sorted(set(v.strip() for v in values if v.strip())) joined with ", ".
TextUnion(values) ==
    join(sorted({strip(values[i]) : i \in 1..Len(values)} \ {<<>>}))

\* One column of merge_group's row.
MergeColumn(group, col) ==
    LET values == UniqueValues(group, col)
    IN  IF col \in SUM_COLUMNS THEN Num(SumColumn(group, col))
        ELSE IF col = KeyColumn THEN group[1][col]
        ELSE IF Len(values) = 1 THEN Str(strip(values[1]))
        ELSE Str(TextUnion(values))

\* merge_group(group): one cell for each column of the group.
merge_group(group, cols) == [col \in Range(cols) |-> MergeColumn(group, col)]

(* ------------------------- groupby and apply -------------------------- *)

\* The key of a row as groupby sees it.
KeyOf(row) == row[KeyColumn]

\* Keys in first-seen order: a groupby with sort=False.
GroupKeysFirstSeen(t) ==
    LET keyed == SelectSeq(Column(t.rows, KeyColumn), NotNull)
    IN  FirstSeen([i \in 1..Len(keyed) |-> keyed[i].s])

\* A group for every row with a key, equal keys not brought together.
GroupKeysPerRow(t) ==
    LET keyed == SelectSeq(Column(t.rows, KeyColumn), NotNull)
    IN  [i \in 1..Len(keyed) |-> keyed[i].s]

\* The group keys of df.groupby("School No"): sort=True puts the distinct
\* keys in ascending order, dropna=True leaves the NaN keys out.
GroupKeys(t) ==
    sorted({KeyOf(t.rows[i]).s : i \in {j \in 1..Len(t.rows) : NotNull(KeyOf(t.rows[j]))}})

NotKeyColumn(c) == c # KeyColumn

\* include_groups=False: the frame handed to merge_group has no key column.
DataColumns(t) == SelectSeq(t.columns, NotKeyColumn)

\* The rows of one group, in input order.
GroupRows(t, k) ==
    LET Member(r) == KeyOf(r) = Str(k)
    IN  SelectSeq(t.rows, Member)

\* df.groupby("School No", as_index=False).apply(merge_group,
\* include_groups=False). With a group at least, the result has the key
\* column put first and then merge_group's columns; with no group at all
\* merge_group is never called and the result is the empty frame over the
\* data columns alone.
GroupByApply(t) ==
    LET keys == GroupKeys(t)
        data == DataColumns(t)
        cols == <<KeyColumn>> \o data
    IN  IF keys = <<>> THEN [columns |-> data, rows |-> <<>>]
        ELSE [columns |-> cols,
              rows |-> [i \in 1..Len(keys) |->
                          LET m == merge_group(GroupRows(t, keys[i]), data)
                          IN  [c \in Range(cols) |->
                                 IF c = KeyColumn THEN Str(keys[i]) ELSE m[c]]]]

(* --------------------------- rounding pass ---------------------------- *)

\* round(2): to the nearest multiple of 0.01, a tie to the even one.
Round2(n) ==
    LET unit == Scale \div 100
        q == n \div unit
        r == n % unit
        up == 2 * r > unit \/ (2 * r = unit /\ q % 2 = 1)
    IN  (IF up THEN q + 1 ELSE q) * unit

\* pd.to_numeric(..., errors='coerce').fillna(0).round(2) of one cell.
RoundCell(v) == IF v.kind = "num" THEN Num(Round2(v.n)) ELSE Num(0)

\* The loop over SUM_COLUMNS that rounds the columns present.
RoundColumns(t) ==
    [columns |-> t.columns,
     rows |-> [i \in 1..Len(t.rows) |->
                 [c \in Range(t.columns) |->
                    IF c \in SUM_COLUMNS THEN RoundCell(t.rows[i][c])
                    ELSE t.rows[i][c]]]]

(* ------------------------------ state --------------------------------- *)

VARIABLES
    fn,         \* the entry point running: "process_file" or "process_excel_data"
    file,       \* the uploaded workbook
    pc,         \* where the entry point stands
    df,         \* the frame read_excel returned
    merged_df,  \* the merged frame
    outfile,    \* what to_excel wrote at output_path
    ret,        \* what the entry point returned
    error,      \* the exception the entry point raised to its caller
    trace,      \* the steps run so far, in order
    remerged,   \* the merge applied once more to merged_df
    cc_in, cc_out, cc_pc,   \* clean_currency called on its own
    now, fs, req            \* the Flask handler: clock, disk, requests

core_vars == <<fn, file, pc, df, merged_df, outfile, ret, error, trace, remerged>>
cc_vars == <<cc_in, cc_out, cc_pc>>
web_vars == <<now, fs, req>>
vars == <<core_vars, cc_vars, web_vars>>

None == [kind |-> "None"]

(* ------------------------------ inputs --------------------------------- *)

KeyCells == {Null, Str(<<"1", "0">>), Str(<<"2">>)}

NameCells ==
    {Null, Str(<<"O", "a", "k">>), Str(<<"o", "a", "k", " ">>),
     Str(<<"O", "a", "k", " ">>), Str(<<" ">>)}

RevCells ==
    {Null, Str(<<"$", "1", ",", "0", "0", "0", ".", "0", "0">>),
     Str(<<"5", "0", "0">>), Str(<<"1", ".", "2", ".", "3">>),
     Str(<<"0", ".", "1", "2", "5">>)}

CellDomain(col) ==
    CASE col = KeyColumn -> KeyCells
      [] col = "Name" -> NameCells
      [] col = "ASSET Revenue" -> RevCells

Headers ==
    {<<"School No", "Name">>, <<"ASSET Revenue", "School No">>, <<"Name">>}

RowsOver(h) ==
    {r \in [Range(h) -> KeyCells \cup NameCells \cup RevCells] :
        \A c \in Range(h) : r[c] \in CellDomain(c)}

Workbooks ==
    UNION {{[kind |-> "xlsx", columns |-> h, rows |-> rows] :
              rows \in UNION {[1..n -> RowsOver(h)] : n \in 0..MaxRows}} :
           h \in Headers}

Corrupt == [kind |-> "corrupt"]

CCIdle == cc_in = None /\ cc_out = 0 /\ cc_pc = "idle"
WebIdle == now = 0 /\ fs = None /\ req = None

Init ==
    /\ fn \in {"process_file", "process_excel_data"}
    /\ file \in Workbooks \cup {Corrupt}
    /\ pc = "start"
    /\ df = None /\ merged_df = None /\ outfile = None
    /\ ret = None /\ error = None /\ remerged = None
    /\ trace = <<>>
    /\ CCIdle /\ WebIdle

(* ----------------------- process_file, step by step -------------------- *)

\* The column check left out.
MissingKeyNever(t) == FALSE

\* 'School No' not in df.columns
MissingKey(t) == KeyColumn \notin Range(t.columns)

SchemaMessage == "Excel file must contain a 'School No' column"

\* raise Exception(f"Error processing file: {str(e)}"): whatever was raised
\* inside the try leaves process_file as a plain Exception.
Wrap(e) == [kind |-> "Exception", msg |-> <<"Error processing file: ", e.msg>>]

\* except Exception as e, in each entry point: process_file raises the
\* wrapped exception, process_excel_data returns (None, message).
Caught(e) ==
    /\ pc' = "failed"
    /\ IF fn = "process_file"
       THEN error' = Wrap(e) /\ ret' = ret
       ELSE error' = error
            /\ ret' = [df |-> None, msg |-> <<"Error processing file: ", e.msg>>]

\* pd.read_excel(..., dtype=str)
ReadExcel ==
    /\ pc = "start"
    /\ trace' = Append(trace, "read_excel")
    /\ IF file.kind = "corrupt"
       THEN /\ Caught([kind |-> "BadZipFile", msg |-> "File is not a zip file"])
            /\ df' = df
       ELSE /\ df' = [columns |-> file.columns, rows |-> file.rows]
            /\ pc' = "read"
            /\ UNCHANGED <<ret, error>>
    /\ UNCHANGED <<fn, file, merged_df, outfile, remerged, cc_vars, web_vars>>

\* The check for the 'School No' column: process_file raises ValueError,
\* process_excel_data returns (None, message).
CheckColumn ==
    /\ pc = "read"
    /\ trace' = Append(trace, "check_column")
    /\ IF MissingKey(df)
       THEN IF fn = "process_file"
            THEN Caught([kind |-> "ValueError", msg |-> SchemaMessage])
            ELSE /\ pc' = "failed"
                 /\ ret' = [df |-> None, msg |-> SchemaMessage]
                 /\ error' = error
       ELSE pc' = "checked" /\ UNCHANGED <<ret, error>>
    /\ UNCHANGED <<fn, file, df, merged_df, outfile, remerged, cc_vars, web_vars>>

\* df.groupby("School No", ...).apply(merge_group, ...); groupby raises
\* KeyError when the frame has no such column.
GroupApply ==
    /\ pc = "checked"
    /\ trace' = Append(trace, "groupby_apply")
    /\ IF KeyColumn \notin Range(df.columns)
       THEN Caught([kind |-> "KeyError", msg |-> "'School No'"])
            /\ merged_df' = merged_df
       ELSE /\ merged_df' = GroupByApply(df)
            /\ pc' = "merged"
            /\ UNCHANGED <<ret, error>>
    /\ UNCHANGED <<fn, file, df, outfile, remerged, cc_vars, web_vars>>

\* The rounding loop over SUM_COLUMNS.
RoundPass ==
    /\ pc = "merged"
    /\ trace' = Append(trace, "round")
    /\ merged_df' = RoundColumns(merged_df)
    /\ pc' = "rounded"
    /\ UNCHANGED <<fn, file, df, outfile, ret, error, remerged, cc_vars, web_vars>>

\* merged_df.to_excel(output_path) and return len(df), len(merged_df).
ToExcel ==
    /\ pc = "rounded" /\ fn = "process_file"
    /\ trace' = Append(trace, "to_excel")
    /\ outfile' = merged_df
    /\ ret' = [original |-> Len(df.rows), merged |-> Len(merged_df.rows)]
    /\ pc' = "done"
    /\ UNCHANGED <<fn, file, df, merged_df, error, remerged, cc_vars, web_vars>>

\* process_excel_data: return merged_df, None
ReturnFrame ==
    /\ pc = "rounded" /\ fn = "process_excel_data"
    /\ trace' = Append(trace, "return")
    /\ ret' = [df |-> merged_df, msg |-> None]
    /\ pc' = "done"
    /\ UNCHANGED <<fn, file, df, merged_df, outfile, error, remerged, cc_vars, web_vars>>

\* The grouping, merge_group and the rounding pass applied to a frame.
Merge(t) ==
    IF KeyColumn \notin Range(t.columns)
    THEN [kind |-> "KeyError", msg |-> "'School No'"]
    ELSE RoundColumns(GroupByApply(t))

\* The merge run again on its own result.
ReMerge ==
    /\ pc = "done"
    /\ remerged' = Merge(merged_df)
    /\ pc' = "remerged"
    /\ UNCHANGED <<fn, file, df, merged_df, outfile, ret, error, trace, cc_vars, web_vars>>

Next ==
    \/ ReadExcel \/ CheckColumn \/ GroupApply \/ RoundPass
    \/ ToExcel \/ ReturnFrame \/ ReMerge

Spec == Init /\ [][Next]_vars

(* ------------------------- what the claims use ------------------------ *)

Finished == pc \in {"done", "remerged"}

\* The table the entry point hands back: the file written, or the frame.
Output == IF fn = "process_file" THEN outfile ELSE ret.df

HasKeyColumn == file.kind = "xlsx" /\ KeyColumn \in Range(file.columns)

\* Indices of the input rows whose School No is the string k.
RowsWithKey(k) == {i \in 1..Len(file.rows) : file.rows[i][KeyColumn] = Str(k)}

\* The School No strings occurring in the input rows.
InputKeys ==
    {file.rows[i][KeyColumn].s :
        i \in {j \in 1..Len(file.rows) : file.rows[j][KeyColumn].kind = "str"}}

\* Indices of the output rows that carry key k.
OutputRowsOf(k) ==
    {i \in 1..Len(Output.rows) : Output.rows[i][KeyColumn] = Str(k)}

RECURSIVE CleanTotal(_, _)
\* clean_currency summed over the input rows with index in I.
CleanTotal(I, col) ==
    IF I = {} THEN 0
    ELSE LET i == CHOOSE x \in I : TRUE
         IN  clean_currency(file.rows[i][col]) + CleanTotal(I \ {i}, col)

Abs(x) == IF x < 0 THEN -x ELSE x

Cent == Scale \div 100

\* n is x rounded to 2 decimals: a whole number of cents, nearest to x.
IsRounded2(n, x) == n % Cent = 0 /\ 2 * Abs(n - x) <= Cent

AggColumnsPresent == SUM_COLUMNS \cap Range(file.columns)

\* C1: after process_file or process_excel_data, every group has one merged
\* row, and in it every aggregation column present holds the sum of
\* clean_currency over the raw cells of the group's rows (a null cell
\* counting 0), rounded to 2 decimals.
C1_GroupSums ==
    (Finished /\ HasKeyColumn) =>
        \A k \in InputKeys : \A col \in AggColumnsPresent :
            /\ Cardinality(OutputRowsOf(k)) = 1
            /\ \A i \in OutputRowsOf(k) :
                 /\ Output.rows[i][col].kind = "num"
                 /\ IsRounded2(Output.rows[i][col].n,
                               CleanTotal(RowsWithKey(k), col))

\* A finished merge of a group of two rows, one with a null revenue cell and
\* one with "$1,000.00", whose merged revenue is 1000.00.
C1_Witness ==
    /\ Finished /\ HasKeyColumn
    /\ "ASSET Revenue" \in Range(file.columns)
    /\ \E k \in InputKeys :
         /\ Cardinality(RowsWithKey(k)) = 2
         /\ \E i, j \in RowsWithKey(k) :
              /\ file.rows[i]["ASSET Revenue"] = Null
              /\ file.rows[j]["ASSET Revenue"]
                   = Str(<<"$", "1", ",", "0", "0", "0", ".", "0", "0">>)
         /\ \E i \in OutputRowsOf(k) :
              Output.rows[i]["ASSET Revenue"] = Num(1000 * Scale)

\* The trimmed non-empty values column col has in the rows of I.
TrimmedValues(rows, I, col) ==
    {strip(rows[i][col].s) : i \in {j \in I : rows[j][col].kind = "str"}}
        \ {<<>>}

\* The elements of S as the one ascending sequence.
Ascending(S) ==
    CHOOSE q \in [1..Cardinality(S) -> S] :
        \A i, j \in 1..Cardinality(S) : i < j => StrLess(q[i], q[j])

TextColumnsPresent == Range(file.columns) \ SUM_COLUMNS

\* The input with its rows rearranged by the permutation p.
Permuted(p) ==
    [columns |-> file.columns,
     rows |-> [i \in 1..Len(file.rows) |-> file.rows[p[i]]]]

\* C2: a non-aggregation column with 2 or more distinct trimmed non-empty
\* values in a group is merged to those values, deduplicated, in ascending
\* string order, joined with ", "; and merging the input with its rows
\* permuted gives every group the same value.
C2_TextUnion ==
    (Finished /\ HasKeyColumn) =>
        \A k \in InputKeys : \A col \in TextColumnsPresent :
            LET D == TrimmedValues(file.rows, RowsWithKey(k), col)
            IN  Cardinality(D) >= 2 =>
                  /\ \A i \in OutputRowsOf(k) :
                       Output.rows[i][col] = Str(join(Ascending(D)))
                  /\ \A p \in Permutations(1..Len(file.rows)) :
                       LET m == Merge(Permuted(p))
                       IN  \A i \in 1..Len(m.rows) :
                             m.rows[i][KeyColumn] = Str(k) =>
                               m.rows[i][col] = Str(join(Ascending(D)))

\* A finished merge of the rows "oak " and "Oak" of one school, in this
\* order, whose merged name is "Oak, oak".
C2_Witness ==
    /\ Finished /\ HasKeyColumn
    /\ "Name" \in Range(file.columns)
    /\ Len(file.rows) = 2
    /\ file.rows[1][KeyColumn] = file.rows[2][KeyColumn]
    /\ file.rows[1]["Name"] = Str(<<"o", "a", "k", " ">>)
    /\ file.rows[2]["Name"] = Str(<<"O", "a", "k">>)
    /\ Len(Output.rows) = 1
    /\ Output.rows[1]["Name"] = Str(<<"O", "a", "k", ",", " ", "o", "a", "k">>)

\* C3: the counts process_file returns are the input's row count and the
\* merged row count; the merged count is at most the original count and is
\* the number of distinct School No values occurring in the input rows.
C3_RowCounts ==
    (pc \in {"done", "remerged"} /\ fn = "process_file") =>
        /\ ret.original = Len(file.rows)
        /\ ret.merged <= ret.original
        /\ ret.merged = Cardinality(InputKeys)
        /\ ret.merged = Len(outfile.rows)

\* process_file has returned for an input in which two rows share a key.
C3_Witness ==
    /\ pc = "done" /\ fn = "process_file"
    /\ ret.original = 2 /\ ret.merged = 1

\* Position of key k's first row in the input.
FirstRow(k) == CHOOSE i \in RowsWithKey(k) : \A j \in RowsWithKey(k) : i <= j

\* C4 as stated: the merged rows come in first-seen order of the keys.
C4_FirstSeenOrder ==
    (Finished /\ HasKeyColumn) =>
        \A a, b \in InputKeys :
            FirstRow(a) < FirstRow(b) =>
                \A i \in OutputRowsOf(a) : \A j \in OutputRowsOf(b) : i < j

\* C4, amended: the merged rows come in ascending string order of their
\* School No, whatever the order of the input rows.
C4_AscendingKeyOrder ==
    (Finished /\ HasKeyColumn) =>
        \A i, j \in 1..Len(Output.rows) :
            i < j => StrLess(Output.rows[i][KeyColumn].s,
                             Output.rows[j][KeyColumn].s)

\* A finished merge of an input whose first key is "2" and second "10":
\* the output has "10" first.
C4_Witness ==
    /\ Finished /\ HasKeyColumn
    /\ Len(file.rows) = 2
    /\ file.rows[1][KeyColumn] = Str(<<"2">>)
    /\ file.rows[2][KeyColumn] = Str(<<"1", "0">>)
    /\ Len(Output.rows) = 2
    /\ Output.rows[1][KeyColumn] = Str(<<"1", "0">>)

NoKeyColumn == file.kind = "xlsx" /\ KeyColumn \notin Range(file.columns)

\* C5: with no 'School No' column the entry point fails at the column check:
\* no grouping or merging step runs and nothing is written; process_file
\* raises, process_excel_data returns None with the message that names the
\* column.
C5_MissingKeyFailsFirst ==
    NoKeyColumn =>
        /\ pc \in {"start", "read", "failed"}
        /\ "groupby_apply" \notin Range(trace)
        /\ merged_df = None /\ outfile = None
        /\ pc = "failed" =>
             /\ trace = <<"read_excel", "check_column">>
             /\ IF fn = "process_file"
                THEN error # None /\ error.msg[2] = SchemaMessage /\ ret = None
                ELSE ret = [df |-> None, msg |-> SchemaMessage]

\* process_excel_data has returned for a table without the column.
C5_Witness ==
    NoKeyColumn /\ pc = "failed" /\ fn = "process_excel_data"
        /\ Len(file.rows) > 0

\* The kind under which process_file surfaces a failure of decoding,
\* grouping or encoding.
ProcessingErrorKinds ==
    {Wrap([kind |-> k, msg |-> ""]).kind : k \in {"BadZipFile", "KeyError"}}

\* C6: the error process_file raises for a missing 'School No' column is of
\* a kind other than the kind it raises for downstream failures.
C6_SchemaErrorKindDistinct ==
    (pc = "failed" /\ fn = "process_file" /\ NoKeyColumn) =>
        error.kind \notin ProcessingErrorKinds

\* C7: merging a merged table again yields the same table.
C7_Idempotent == pc = "remerged" => remerged = merged_df

\* C7, for the merged tables that have a row: these the second merge
\* leaves as they are.
C7_IdempotentNonEmpty ==
    (pc = "remerged" /\ Len(merged_df.rows) > 0) => remerged = merged_df

RECURSIVE OutputTotal(_, _)
\* An aggregation column summed over the output rows with index in I.
OutputTotal(I, col) ==
    IF I = {} THEN 0
    ELSE LET i == CHOOSE x \in I : TRUE
         IN  Output.rows[i][col].n + OutputTotal(I \ {i}, col)

\* C9: each aggregation column's total over the merged rows is the total of
\* clean_currency over all input rows, up to half a cent for each group.
C9_TotalsPreserved ==
    (Finished /\ HasKeyColumn) =>
        \A col \in AggColumnsPresent :
            2 * Abs(OutputTotal(1..Len(Output.rows), col)
                      - CleanTotal(1..Len(file.rows), col))
                <= Cent * Len(Output.rows)

\* C9, for the inputs in which every row has a School No.
C9_TotalsPreservedAllKeyed ==
    (Finished /\ HasKeyColumn
       /\ \A i \in 1..Len(file.rows) : file.rows[i][KeyColumn] # Null) =>
        \A col \in AggColumnsPresent :
            2 * Abs(OutputTotal(1..Len(Output.rows), col)
                      - CleanTotal(1..Len(file.rows), col))
                <= Cent * Len(Output.rows)

(* ------------------- clean_currency called on its own ------------------ *)

Alphabet == {"1", "5", ".", ",", "$", "-", "u0663"}

Strings(n) == UNION {[1..k -> Alphabet] : k \in 0..n}

\* Longer raw cells: "1,234.56", "$1.2.3", "-$1,500".
Samples ==
    {<<"1", ",", "2", "3", "4", ".", "5", "6">>,
     <<"$", "1", ".", "2", ".", "3">>,
     <<"-", "$", "1", ",", "5", "0", "0">>}

CoreIdle ==
    /\ fn = "idle" /\ file = None /\ pc = "idle"
    /\ df = None /\ merged_df = None /\ outfile = None
    /\ ret = None /\ error = None /\ remerged = None
    /\ trace = <<>>

CCInit ==
    /\ cc_in \in {Null} \cup {Str(s) : s \in Strings(MaxLen) \cup Samples}
    /\ cc_out = 0
    /\ cc_pc = "call"
    /\ CoreIdle /\ WebIdle

CCApply ==
    /\ cc_pc = "call"
    /\ cc_out' = clean_currency(cc_in)
    /\ cc_pc' = "returned"
    /\ UNCHANGED <<cc_in, core_vars, web_vars>>

CCNext == CCApply

SpecCC == CCInit /\ [][CCNext]_vars

DecimalDigitOrDot(c) ==
    c \in {"0", "1", "2", "3", "4", "5", "6", "7", "8", "9", "u0663", "."}

AsciiDigitOrDot(c) ==
    c \in {"0", "1", "2", "3", "4", "5", "6", "7", "8", "9", "."}

\* The digits-and-dots string s is a numeral: one "." at most, a digit.
IsNumeral(s) ==
    /\ Cardinality({i \in 1..Len(s) : s[i] = "."}) <= 1
    /\ \E i \in 1..Len(s) : s[i] # "."

RECURSIVE PlaceSum(_, _, _)
\* The digits of s at the positions of I, each weighted by its place; p is
\* the position of the ".", or Len(s) + 1.
PlaceSum(s, p, I) ==
    IF I = {} THEN 0
    ELSE LET i == CHOOSE x \in I : TRUE
             w == IF i < p THEN Scale * Pow10(p - 1 - i)
                  ELSE Scale \div Pow10(i - p)
         IN  DigitVal(s[i]) * w + PlaceSum(s, p, I \ {i})

\* The number the numeral s denotes.
Denoted(s) ==
    LET p == IF \E i \in 1..Len(s) : s[i] = "."
             THEN CHOOSE i \in 1..Len(s) : s[i] = "."
             ELSE Len(s) + 1
    IN  PlaceSum(s, p, (1..Len(s)) \ {p})

\* What the claim gives for a cell, Keep being the characters kept.
Cleaned(value, Keep(_)) ==
    IF value = Null THEN 0
    ELSE LET kept == SelectSeq(value.s, Keep)
         IN  IF kept = <<>> THEN 0
             ELSE IF ~IsNumeral(kept) THEN 0
             ELSE Denoted(kept)

\* C8 as stated: clean_currency returns a number for null and for every
\* string: 0.0 for null, 0.0 when nothing is left once every character that
\* is not an ASCII digit or '.' is removed, 0.0 when what is left is no
\* number, and else the number it denotes.
C8_AsciiDigitsKept ==
    cc_pc = "returned" =>
        cc_out \in Nat /\ cc_out = Cleaned(cc_in, AsciiDigitOrDot)

\* C8, amended: the same with the characters kept being the decimal digits
\* of any script (what \d matches in a str) and '.'.
C8_DecimalDigitsKept ==
    cc_pc = "returned" =>
        cc_out \in Nat /\ cc_out = Cleaned(cc_in, DecimalDigitOrDot)

\* clean_currency has returned 1234.56 for "1,234.56".
C8_Witness ==
    /\ cc_pc = "returned"
    /\ cc_in = Str(<<"1", ",", "2", "3", "4", ".", "5", "6">>)
    /\ cc_out = 1234 * Scale + 56 * (Scale \div 100)

(* ---------------------- the Flask handler, index() --------------------- *)

\* Last second the clock of the model reaches.
MaxClock == 1

Reqs == {1, 2}

ALLOWED_EXTENSIONS == {"xlsx"}

\* allowed_file(filename)
allowed_file(f) == f.ext \in ALLOWED_EXTENSIONS

WbOak ==
    [kind |-> "xlsx", columns |-> <<"School No", "Name">>,
     rows |-> <<[c \in {"School No", "Name"} |->
                   IF c = "Name" THEN Str(<<"O", "a", "k">>) ELSE Str(<<"2">>)]>>]

WbRevenue ==
    [kind |-> "xlsx", columns |-> <<"ASSET Revenue", "School No">>,
     rows |-> <<[c \in {"School No", "ASSET Revenue"} |->
                   IF c = "School No" THEN Str(<<"2">>)
                   ELSE Str(<<"5", "0", "0">>)]>>]

WbNoKey == [kind |-> "xlsx", columns |-> <<"Name">>, rows |-> <<>>]

\* request.files: no 'excel_file' part, an empty filename, a file.
NoFilePart == [kind |-> "nofile"]

Uploads ==
    {NoFilePart,
     [kind |-> "file", name |-> "", ext |-> "", content |-> WbOak],
     [kind |-> "file", name |-> "a", ext |-> "txt", content |-> WbOak]}
    \cup {[kind |-> "file", name |-> n, ext |-> "xlsx", content |-> c] :
            n \in {"a", "b"}, c \in {WbOak, WbRevenue, WbNoKey}}

Absent == [kind |-> "absent"]

Paths ==
    {<<d, n, s>> : d \in {"uploads", "outputs"}, n \in {"a", "b"},
                   s \in 0..MaxClock}

WebInit ==
    /\ now = 0
    /\ fs = [p \in Paths |-> Absent]
    /\ req \in [Reqs -> {[pc |-> "post", upload |-> u, input_path |-> <<>>,
                          output_path |-> <<>>, response |-> None,
                          flash |-> None] : u \in Uploads}]
    /\ CoreIdle /\ CCIdle

\* The wall clock moves on to the next second.
Tick ==
    /\ now < MaxClock
    /\ now' = now + 1
    /\ UNCHANGED <<fs, req, core_vars, cc_vars>>

\* The checks of the upload, then secure_filename and the timestamp of
\* datetime.now().strftime("%Y%m%d_%H%M%S"), which make input_path.
Receive(r) ==
    /\ req[r].pc = "post"
    /\ LET u == req[r].upload
       IN  IF u.kind = "nofile" \/ u.name = ""
           THEN req' = [req EXCEPT ![r].pc = "redirected",
                                   ![r].flash = "No file selected!"]
           ELSE IF ~allowed_file(u)
           THEN req' = [req EXCEPT ![r].pc = "redirected",
                                   ![r].flash = "Invalid file format"]
           ELSE req' = [req EXCEPT ![r].pc = "save",
                                   ![r].input_path = <<"uploads", u.name, now>>]
    /\ UNCHANGED <<now, fs, core_vars, cc_vars>>

\* file.save(input_path), and output_path made from input_filename.
Save(r) ==
    /\ req[r].pc = "save"
    /\ fs' = [fs EXCEPT ![req[r].input_path] = req[r].upload.content]
    /\ req' = [req EXCEPT ![r].pc = "process",
                          ![r].output_path =
                              <<"outputs", req[r].input_path[2], req[r].input_path[3]>>]
    /\ UNCHANGED <<now, core_vars, cc_vars>>

\* process_file(input_path, output_path) from the disk as it is: the
\* exception it raises, or the frame it writes at output_path.
process_file(disk, input_path) ==
    LET wb == disk[input_path]
    IN  IF wb = Absent
        THEN Wrap([kind |-> "FileNotFoundError", msg |-> "No such file"])
        ELSE IF wb.kind # "xlsx"
        THEN Wrap([kind |-> "BadZipFile", msg |-> "File is not a zip file"])
        ELSE IF MissingKey(wb)
        THEN Wrap([kind |-> "ValueError", msg |-> SchemaMessage])
        ELSE [kind |-> "written", out |-> RoundColumns(GroupByApply(wb))]

Process(r) ==
    /\ req[r].pc = "process"
    /\ LET res == process_file(fs, req[r].input_path)
       IN  IF res.kind = "written"
           THEN /\ fs' = [fs EXCEPT ![req[r].output_path] =
                                       [kind |-> "xlsx", columns |-> res.out.columns,
                                        rows |-> res.out.rows]]
                /\ req' = [req EXCEPT ![r].pc = "remove"]
           ELSE /\ fs' = fs
                /\ req' = [req EXCEPT ![r].pc = "except", ![r].flash = res.msg]
    /\ UNCHANGED <<now, core_vars, cc_vars>>

\* os.remove(input_path); a failure is passed over.
Remove(r) ==
    /\ req[r].pc = "remove"
    /\ fs' = [fs EXCEPT ![req[r].input_path] = Absent]
    /\ req' = [req EXCEPT ![r].pc = "send", ![r].flash = "Success!"]
    /\ UNCHANGED <<now, core_vars, cc_vars>>

\* send_file(output_path): the file at output_path is the response; with
\* no file there send_file raises inside the try.
Send(r) ==
    /\ req[r].pc = "send"
    /\ IF fs[req[r].output_path] = Absent
       THEN req' = [req EXCEPT ![r].pc = "except", ![r].flash = "No such file"]
       ELSE req' = [req EXCEPT ![r].pc = "sent",
                               ![r].response = fs[req[r].output_path]]
    /\ UNCHANGED <<now, fs, core_vars, cc_vars>>

\* except Exception: remove input_path and output_path where they exist,
\* flash the error and redirect.
Cleanup(r) ==
    /\ req[r].pc = "except"
    /\ fs' = [p \in Paths |->
                IF p = req[r].input_path \/ p = req[r].output_path
                THEN Absent ELSE fs[p]]
    /\ req' = [req EXCEPT ![r].pc = "redirected"]
    /\ UNCHANGED <<now, core_vars, cc_vars>>

WebNext ==
    \/ Tick
    \/ \E r \in Reqs :
         Receive(r) \/ Save(r) \/ Process(r) \/ Remove(r) \/ Send(r) \/ Cleanup(r)

SpecWeb == WebInit /\ [][WebNext]_vars

\* The upload of request r can be merged: it is a workbook with the column.
Mergeable(r) ==
    /\ req[r].upload.kind = "file" /\ req[r].upload.name # ""
    /\ allowed_file(req[r].upload)
    /\ ~MissingKey(req[r].upload.content)

\* The file the request should return: the merge of its own upload.
OwnMerge(r) ==
    LET m == RoundColumns(GroupByApply(req[r].upload.content))
    IN  [kind |-> "xlsx", columns |-> m.columns, rows |-> m.rows]

\* C10: two requests handled at once do not interfere: the file at a
\* request's input_path is its own upload while it works on it, a request
\* whose upload can be merged is not driven into the error path, and the
\* file it sends is the merge of its own upload.
C10_NoInterference ==
    \A r \in Reqs :
        /\ req[r].pc = "process" => fs[req[r].input_path] = req[r].upload.content
        /\ Mergeable(r) => req[r].pc # "except"
        /\ req[r].pc = "sent" => req[r].response = OwnMerge(r)

\* C10, for requests whose input paths differ (another name, or another
\* second on the clock).
C10_DistinctPathsNoInterference ==
    \A r \in Reqs :
        (\A q \in Reqs \ {r} : req[q].input_path # req[r].input_path) =>
            /\ req[r].pc = "process" => fs[req[r].input_path] = req[r].upload.content
            /\ Mergeable(r) => req[r].pc # "except"
            /\ req[r].pc = "sent" => req[r].response = OwnMerge(r)

=============================================================================
